---- MODULE Spec2Model ----
(***************************************************************************)
(* Model of ml_courses.sim: MonteCarloTipsSimulation (monte_carlo_tips.py) *)
(* and LinearRegressionSSEVisualizer (linear_regression_sse_viz.py).       *)
(*                                                                         *)
(* Numbers.  The simulation's tips, b1 and noise are counted in hundredths *)
(* (0.50 is 50), b2 in hundredths per order unit, order totals in whole    *)
(* units, so a loss is in 1/10000.  The visualizer's data are integers; a  *)
(* float that is not finite is kept apart (see "floats" below).            *)
(* An optional argument is <<>> for None and <<v>> for the value v.        *)
(***************************************************************************)
EXTENDS Integers, Sequences, FiniteSets, TLC

VARIABLES
    \* ---- MonteCarloTipsSimulation: the instance
    pc,             \* "new", "idle", "loop", "returned", "raised"
    order_totals,   \* self.order_totals
    observed_tips,  \* self.observed_tips
    rng,            \* deviates drawn from self.rng so far (the generator's position)
    calls,          \* run_simulation calls made on the instance
    \* ---- run_simulation: arguments and locals of the call in progress
    args,           \* [n_samples, step_size, b1_init, b2_init, b1_bounds, b2_bounds, x, y]
    step,           \* iterations of the for loop completed
    b1, b2, current_loss, n_accepted,
    b1_samples, b2_samples, loss_samples,
    last,           \* the proposal of the latest iteration: [b1_new, b2_new, new_loss]
    result,         \* the returned dict, <<>> while there is none
    error,          \* the exception that ended the call, "" when none
    \* ---- LinearRegressionSSEVisualizer: the instance
    vpc,            \* "new", "ready"
    x_data, y_data, true_bias, true_slope, true_sse,
    surface_min_bias, surface_min_slope, surface_min_sse,
    \* ---- the latest visualizer call
    vcall,          \* its name and arguments
    vout            \* its outcome: what it returned, or the exception it raised

simVars == <<pc, order_totals, observed_tips, rng, calls, args, step, b1, b2,
             current_loss, n_accepted, b1_samples, b2_samples, loss_samples,
             last, result, error>>
vizVars == <<vpc, x_data, y_data, true_bias, true_slope, true_sse,
             surface_min_bias, surface_min_slope, surface_min_sse, vcall, vout>>
vars == <<simVars, vizVars>>

None == <<>>
Some(v) == <<v>>
Val(o) == o[1]

(***************************************************************************)
(* Bounds of the model.                                                    *)
(***************************************************************************)
MaxCustomers == 1   \* n_customers ranges over 1..MaxCustomers
MaxSamples == 2     \* n_samples ranges over 0..MaxSamples
MaxCalls == 1       \* run_simulation calls per instance

(***************************************************************************)
(* Constants of monte_carlo_tips.py (hundredths).                          *)
(***************************************************************************)
TrueB1 == 50        \* true_b1 = 0.50
TrueB2 == 15        \* true_b2 = 0.15
NoiseStd == 30      \* noise_std = 0.30
OrderMin == 3
OrderMax == 25
B1InitLow == 0      \* uniform(0, 10)
B1InitHigh == 1000
B2InitLow == 5      \* uniform(0.05, 0.50)
B2InitHigh == 50
B1NoiseFactor == 5  \* normal(0, step_size * 5)

\* the standard normal deviates and the uniform deviates (in halves) drawn
Deviates == {0 - 1, 0, 1}
UDeviates == {0, 1}

\* rng.uniform(low, high) for the deviate k/2, on the grid of hundredths
Uniform(low, high, k) == low + ((high - low) * k) \div Cardinality(UDeviates)

\* rng.normal(0, std) for the standard deviate z
Normal(std, z) == std * z

Max(a, b) == IF a >= b THEN a ELSE b
Min(a, b) == IF a <= b THEN a ELSE b

\* Clip with a fault: the proposal is not clipped
ClipNone(v, bounds) == v

\* np.clip(v, lo, hi) = minimum(maximum(v, lo), hi)
Clip(v, bounds) == Min(Max(v, bounds[1]), bounds[2])

RECURSIVE Insert(_, _)
Insert(v, s) ==
    IF s = <<>> THEN <<v>>
    ELSE IF v <= Head(s) THEN <<v>> \o s
    ELSE <<Head(s)>> \o Insert(v, Tail(s))

\* np.sort
RECURSIVE Sort(_)
Sort(s) == IF s = <<>> THEN <<>> ELSE Insert(Head(s), Sort(Tail(s)))

RECURSIVE SumSeq(_)
SumSeq(s) == IF s = <<>> THEN 0 ELSE Head(s) + SumSeq(Tail(s))

\* calculate_loss: sum((y - (b1 + b2 * x)) ** 2)
calculate_loss(p1, p2, x, y) ==
    SumSeq([k \in 1..Len(x) |-> (y[k] - (p1 + p2 * x[k])) * (y[k] - (p1 + p2 * x[k]))])

(***************************************************************************)
(* __init__ and generate_data: n uniform order totals, sorted, and n       *)
(* normal noise terms, all drawn from self.rng; tips are clipped at 0.     *)
(***************************************************************************)
GeneratedTips(totals, noise) ==
    [k \in 1..Len(totals) |-> Max(0, (TrueB1 + TrueB2 * totals[k]) + noise[k])]

SimInit ==
    /\ pc = "new"
    /\ order_totals = <<>>
    /\ observed_tips = <<>>
    /\ rng = 0
    /\ calls = 0
    /\ args = <<>>
    /\ step = 0
    /\ b1 = 0
    /\ b2 = 0
    /\ current_loss = 0
    /\ n_accepted = 0
    /\ b1_samples = <<>>
    /\ b2_samples = <<>>
    /\ loss_samples = <<>>
    /\ last = <<>>
    /\ result = <<>>
    /\ error = ""

Construct ==
    /\ pc = "new"
    /\ \E n \in 1..MaxCustomers :
       \E us \in [1..n -> UDeviates], zs \in [1..n -> Deviates] :
          LET totals == Sort([k \in 1..n |-> Uniform(OrderMin, OrderMax, us[k])])
              noise == [k \in 1..n |-> Normal(NoiseStd, zs[k])]
          IN /\ order_totals' = totals
             /\ observed_tips' = GeneratedTips(totals, noise)
             /\ rng' = rng + 2 * n
    /\ pc' = "idle"
    /\ UNCHANGED <<calls, args, step, b1, b2, current_loss, n_accepted,
                   b1_samples, b2_samples, loss_samples, last, result, error>>
    /\ UNCHANGED vizVars

(***************************************************************************)
(* run_simulation.                                                         *)
(***************************************************************************)
\* the dataset of the specification's example: (3, 1.0), (10, 2.0), (25, 4.0)
ExampleTotals == <<3, 10, 25>>
ExampleTips == <<100, 200, 400>>

StepSizes == {1}
B1Inits == {None, Some(6000)}
B2Inits == {None, Some(14)}
B1BoundsSet == {<<0, 5000>>, <<45, 55>>}
B2BoundsSet == {<<0, 100>>}
DataArgs == {<<None, None>>, <<Some(ExampleTotals), Some(ExampleTips)>>}

\* LoopEnds with a fault: the loop stops one iteration early
LoopEndsEarly(done, n_samples) == done + 1 >= n_samples

\* the test of the for loop: another iteration follows while step < n_samples
LoopEnds(done, n_samples) == done >= n_samples

\* Accepts with a fault: the comparison is inverted
AcceptsWorse(new_loss, loss) == new_loss > loss

\* Accepts with a fault: a tie is accepted
AcceptsTies(new_loss, loss) == new_loss <= loss

\* the acceptance test, line 175
Accepts(new_loss, loss) == new_loss < loss

\* lines 181-183: every iteration appends the current value
Record(samples, v) == Append(samples, v)

\* lines 146-164
RunSimulationEnter ==
    /\ pc = "idle"
    /\ calls < MaxCalls
    /\ \E n_samples \in 0..MaxSamples, step_size \in StepSizes,
          b1_init \in B1Inits, b2_init \in B2Inits,
          b1_bounds \in B1BoundsSet, b2_bounds \in B2BoundsSet,
          data \in DataArgs, u1 \in UDeviates, u2 \in UDeviates :
          LET i1 == IF b1_init = None THEN Uniform(B1InitLow, B1InitHigh, u1)
                    ELSE Val(b1_init)
              i2 == IF b2_init = None THEN Uniform(B2InitLow, B2InitHigh, u2)
                    ELSE Val(b2_init)
              drawn == (IF b1_init = None THEN 1 ELSE 0)
                       + (IF b2_init = None THEN 1 ELSE 0)
              x == IF data[1] = None THEN order_totals ELSE Val(data[1])
              y == IF data[2] = None THEN observed_tips ELSE Val(data[2])
          IN /\ (b1_init # None => u1 = 0)
             /\ (b2_init # None => u2 = 0)
             /\ args' = [n_samples |-> n_samples, step_size |-> step_size,
                         b1_init |-> b1_init, b2_init |-> b2_init,
                         b1_bounds |-> b1_bounds, b2_bounds |-> b2_bounds,
                         x |-> x, y |-> y]
             /\ rng' = rng + drawn
             /\ b1' = i1
             /\ b2' = i2
             /\ current_loss' = calculate_loss(i1, i2, x, y)
             /\ b1_samples' = <<i1>>
             /\ b2_samples' = <<i2>>
             /\ loss_samples' = <<calculate_loss(i1, i2, x, y)>>
    /\ n_accepted' = 0
    /\ step' = 0
    /\ last' = <<>>
    /\ result' = <<>>
    /\ error' = ""
    /\ calls' = calls + 1
    /\ pc' = "loop"
    /\ UNCHANGED <<order_totals, observed_tips>>
    /\ UNCHANGED vizVars

\* lines 166-183: one iteration of the for loop
RunSimulationStep ==
    /\ pc = "loop"
    /\ ~LoopEnds(step, args.n_samples)
    /\ \E z1 \in Deviates, z2 \in Deviates :
          LET b1_new == Clip(b1 + Normal(args.step_size * B1NoiseFactor, z1), args.b1_bounds)
              b2_new == Clip(b2 + Normal(args.step_size, z2), args.b2_bounds)
              new_loss == calculate_loss(b1_new, b2_new, args.x, args.y)
              accept == Accepts(new_loss, current_loss)
              b1_next == IF accept THEN b1_new ELSE b1
              b2_next == IF accept THEN b2_new ELSE b2
              loss_next == IF accept THEN new_loss ELSE current_loss
          IN /\ last' = [b1_new |-> b1_new, b2_new |-> b2_new, new_loss |-> new_loss]
             /\ b1' = b1_next
             /\ b2' = b2_next
             /\ current_loss' = loss_next
             /\ n_accepted' = IF accept THEN n_accepted + 1 ELSE n_accepted
             /\ b1_samples' = Record(b1_samples, b1_next)
             /\ b2_samples' = Record(b2_samples, b2_next)
             /\ loss_samples' = Record(loss_samples, loss_next)
    /\ rng' = rng + 2
    /\ step' = step + 1
    /\ UNCHANGED <<pc, order_totals, observed_tips, calls, args, result, error>>
    /\ UNCHANGED vizVars

\* lines 185-195: n_accepted / n_samples is a Python int division, which raises
\* ZeroDivisionError when n_samples is 0; otherwise the dict is returned
RunSimulationReturn ==
    /\ pc = "loop"
    /\ LoopEnds(step, args.n_samples)
    /\ IF args.n_samples = 0
       THEN /\ pc' = "raised"
            /\ error' = "ZeroDivisionError"
            /\ result' = <<>>
       ELSE /\ pc' = "returned"
            /\ error' = ""
            /\ result' = [final_b1 |-> b1, final_b2 |-> b2, final_loss |-> current_loss,
                          acceptance_rate |-> [num |-> n_accepted, den |-> args.n_samples],
                          b1_samples |-> b1_samples, b2_samples |-> b2_samples,
                          loss_samples |-> loss_samples]
    /\ UNCHANGED <<order_totals, observed_tips, rng, calls, args, step, b1, b2,
                   current_loss, n_accepted, b1_samples, b2_samples, loss_samples, last>>
    /\ UNCHANGED vizVars

\* the caller has the dict (or the exception); the frame of the call is gone and
\* the instance, which keeps only its data and its generator, can be called again
Release ==
    /\ pc \in {"returned", "raised"}
    /\ pc' = "idle"
    /\ args' = <<>>
    /\ step' = 0
    /\ b1' = 0
    /\ b2' = 0
    /\ current_loss' = 0
    /\ n_accepted' = 0
    /\ b1_samples' = <<>>
    /\ b2_samples' = <<>>
    /\ loss_samples' = <<>>
    /\ last' = <<>>
    /\ result' = <<>>
    /\ error' = ""
    /\ UNCHANGED <<order_totals, observed_tips, rng, calls>>
    /\ UNCHANGED vizVars

(***************************************************************************)
(* Floats of the visualizer.  A float is [k |-> "num", v |-> n] for the    *)
(* number n, [k |-> "inf", v |-> 1 or -1] for an infinity and              *)
(* [k |-> "nan", v |-> 0] for NaN; the operations follow IEEE 754, which   *)
(* is what numpy computes (a division by zero warns and yields inf or      *)
(* NaN; it does not raise).  The data sets and ranges drawn below make     *)
(* every finite division exact.                                            *)
(***************************************************************************)
F(n) == [k |-> "num", v |-> n]
Inf(sgn) == [k |-> "inf", v |-> sgn]
NaN == [k |-> "nan", v |-> 0]
Sign(n) == IF n < 0 THEN 0 - 1 ELSE 1
IsFinite(a) == a.k = "num"

FNeg(a) == IF a.k = "nan" THEN NaN ELSE [a EXCEPT !.v = 0 - a.v]
FAbs(a) == IF a.k = "nan" THEN NaN ELSE [a EXCEPT !.v = IF a.v < 0 THEN 0 - a.v ELSE a.v]

FAdd(a, b) ==
    IF a.k = "nan" \/ b.k = "nan" THEN NaN
    ELSE IF a.k = "num" /\ b.k = "num" THEN F(a.v + b.v)
    ELSE IF a.k = "inf" /\ b.k = "inf" THEN (IF a.v = b.v THEN a ELSE NaN)
    ELSE IF a.k = "inf" THEN a ELSE b

FSub(a, b) == FAdd(a, FNeg(b))

FMul(a, b) ==
    IF a.k = "nan" \/ b.k = "nan" THEN NaN
    ELSE IF a.k = "num" /\ b.k = "num" THEN F(a.v * b.v)
    ELSE IF a.v = 0 \/ b.v = 0 THEN NaN
    ELSE Inf(Sign(a.v) * Sign(b.v))

FDiv(a, b) ==
    IF a.k = "nan" \/ b.k = "nan" THEN NaN
    ELSE IF a.k = "inf" THEN (IF b.k = "inf" THEN NaN ELSE Inf(a.v * Sign(b.v)))
    ELSE IF b.k = "inf" THEN F(0)
    ELSE IF b.v = 0 THEN (IF a.v = 0 THEN NaN ELSE Inf(Sign(a.v)))
    ELSE F(Sign(a.v) * Sign(b.v)
           * ((IF a.v < 0 THEN 0 - a.v ELSE a.v) \div (IF b.v < 0 THEN 0 - b.v ELSE b.v)))

\* a > b: FALSE as soon as one of them is NaN
FGt(a, b) ==
    IF a.k = "nan" \/ b.k = "nan" THEN FALSE
    ELSE IF a.k = "num" /\ b.k = "num" THEN a.v > b.v
    ELSE IF a.k = "inf" /\ b.k = "inf" THEN a.v > b.v
    ELSE IF a.k = "inf" THEN a.v > 0 ELSE b.v < 0

FLt(a, b) == FGt(b, a)

\* PyMax with a fault: the slope's half-width is not taken into account
PyMaxFirst(a, b) == a

\* Python's max(a, b): b when b > a, else a
PyMax(a, b) == IF FGt(b, a) THEN b ELSE a

RECURSIVE FSum(_)
FSum(s) == IF s = <<>> THEN F(0) ELSE FAdd(Head(s), FSum(Tail(s)))

SeqMax(s) == CHOOSE m \in {s[k] : k \in 1..Len(s)} : \A k \in 1..Len(s) : s[k] <= m
SeqMin(s) == CHOOSE m \in {s[k] : k \in 1..Len(s)} : \A k \in 1..Len(s) : s[k] >= m

\* np.mean
Mean(s) == FDiv(F(SumSeq(s)), F(Len(s)))

\* _calculate_sse: sum((y_data - (bias + slope * x_data)) ** 2)
calculate_sse(bias, slope, x, y) ==
    FSum([k \in 1..Len(x) |->
            LET r == FSub(F(y[k]), FAdd(bias, FMul(slope, F(x[k])))) IN FMul(r, r)])

\* np.linspace(start, stop, num), num >= 2: arange(num) * step + start with
\* step = (stop - start) / (num - 1), the last entry then set to stop
linspace(start, stop, num) ==
    LET stp == FDiv(FSub(stop, start), F(num - 1))
    IN [k \in 1..num |-> IF k = num THEN stop ELSE FAdd(FMul(F(k - 1), stp), start)]

(***************************************************************************)
(* LinearRegressionSSEVisualizer.__init__ with standardize=False (the      *)
(* default); the standardized variant is not modelled.                     *)
(***************************************************************************)
\* <<x_data, y_data>>: a plain data set; features of zero range; a single point;
\* targets that are all 0
VizData == {<< <<1, 3>>, <<2, 6>> >>,
            << <<2, 2>>, <<1, 3>> >>,
            << <<5>>, <<0>> >>,
            << <<1, 2>>, <<0, 0>> >>}
\* <<true_bias, true_slope>>
TrueParams == {<<None, None>>, <<Some(0), Some(0)>>, <<Some(1), Some(2)>>,
               <<Some(2), None>>}

VizConstruct ==
    /\ vpc = "new"
    /\ \E d \in VizData, tp \in TrueParams :
       LET tb == tp[1]
           ts == tp[2]
       IN /\ x_data' = d[1]
          /\ y_data' = d[2]
          /\ true_bias' = tb
          /\ true_slope' = ts
          /\ true_sse' = IF tb # None /\ ts # None
                         THEN Some(calculate_sse(F(Val(tb)), F(Val(ts)), d[1], d[2]))
                         ELSE None
    /\ surface_min_bias' = None
    /\ surface_min_slope' = None
    /\ surface_min_sse' = None
    /\ vpc' = "ready"
    /\ UNCHANGED <<vcall, vout>>
    /\ UNCHANGED simVars

(***************************************************************************)
(* calculate_sse_surface.  The outcome is a record: status "returned" with *)
(* the ranges used and the three meshes, or status "raised" with the       *)
(* exception.                                                              *)
(***************************************************************************)
Raised(e) == [status |-> "raised", error |-> e]

\* lines 119-121
BiasCenter(tb, y) == IF tb # None THEN F(Val(tb)) ELSE Mean(y)

\* lines 124-130
SlopeCenter(ts, x, y) ==
    IF ts # None THEN F(Val(ts))
    ELSE FDiv(F(SeqMax(y) - SeqMin(y)), F(SeqMax(x) - SeqMin(x)))

\* lines 146-156: the grids and the loss of every cell
Meshes(bias_range, slope_range, resolution, x, y) ==
    LET bias_vals == linspace(bias_range[1], bias_range[2], resolution)
        slope_vals == linspace(slope_range[1], slope_range[2], resolution)
        bias_mesh == [i \in 1..resolution |-> [j \in 1..resolution |-> bias_vals[j]]]
        slope_mesh == [i \in 1..resolution |-> [j \in 1..resolution |-> slope_vals[i]]]
    IN [status |-> "returned",
        bias_range |-> bias_range, slope_range |-> slope_range,
        bias_mesh |-> bias_mesh, slope_mesh |-> slope_mesh,
        sse_mesh |-> [i \in 1..resolution |-> [j \in 1..resolution |->
                        calculate_sse(bias_mesh[i][j], slope_mesh[i][j], x, y)]]]

\* lines 118-156: the set of outcomes of a call.  With bias_range given and
\* slope_range None, line 132 reads scope, which was never assigned.  With
\* bias_range None and slope_range given, bias_range is still None at line 144:
\* the assert raises, or with asserts compiled out line 146 subscripts None.
calculate_sse_surface(bias_range, slope_range, resolution, scale_factor, tb, ts, x, y) ==
    IF slope_range = None
    THEN IF bias_range # None
         THEN {Raised("UnboundLocalError")}
         ELSE LET bias_center == BiasCenter(tb, y)
                  slope_center == SlopeCenter(ts, x, y)
                  scope == PyMax(FMul(FAbs(bias_center), F(scale_factor)),
                                 FMul(FAbs(slope_center), F(scale_factor)))
              IN {Meshes(<<FSub(bias_center, scope), FAdd(bias_center, scope)>>,
                         <<FSub(slope_center, scope), FAdd(slope_center, scope)>>,
                         resolution, x, y)}
    ELSE IF bias_range = None
         THEN {Raised("AssertionError"), Raised("TypeError")}
         ELSE {Meshes(<<F(Val(bias_range)[1]), F(Val(bias_range)[2])>>,
                      <<F(Val(slope_range)[1]), F(Val(slope_range)[2])>>,
                      resolution, x, y)}

BiasRanges == {None, Some(<<0 - 2, 4>>)}
SlopeRanges == {None, Some(<<0, 2>>)}
Resolutions == {2, 3}
ScaleFactors == {1, 3}

CalculateSseSurface ==
    /\ vpc = "ready"
    /\ \E bias_range \in BiasRanges, slope_range \in SlopeRanges,
          resolution \in Resolutions, scale_factor \in ScaleFactors :
          /\ vcall' = [name |-> "calculate_sse_surface",
                       bias_range |-> bias_range, slope_range |-> slope_range,
                       resolution |-> resolution, scale_factor |-> scale_factor]
          /\ vout' \in calculate_sse_surface(bias_range, slope_range, resolution,
                                             scale_factor, true_bias, true_slope,
                                             x_data, y_data)
    /\ UNCHANGED <<vpc, x_data, y_data, true_bias, true_slope, true_sse,
                   surface_min_bias, surface_min_slope, surface_min_sse>>
    /\ UNCHANGED simVars

(***************************************************************************)
(* create_3d_surface_plot, _add_optimization_trace, _add_minima_markers.   *)
(* A figure is the sequence of its traces, each [name, x, y, z].           *)
(***************************************************************************)
MaxPoints == 1000   \* len(bias_samples) // 1000

Trace(name, x, y, z) == [name |-> name, x |-> x, y |-> y, z |-> z]

\* Stride with a fault: no subsampling
StrideOne(n) == 1

\* line 280: step = max(1, len(bias_samples) // 1000)
Stride(n) == Max(1, n \div MaxPoints)

\* s[::st]: the entries at the 0-based indices 0, st, 2 st, ... below len(s)
Slice(s, st) ==
    LET idx == {i \in 0..(Len(s) - 1) : i % st = 0}
    IN [k \in 1..Cardinality(idx) |-> s[(k - 1) * st + 1]]

\* LastEntry with a fault: the last entry of the subsampled path
LastEntrySub(s) == s[((Len(s) - 1) \div Stride(Len(s))) * Stride(Len(s)) + 1]

\* s[-1]
LastEntry(s) == s[Len(s)]

\* lines 279-349, for samples with at least one entry (sse_samples is the
\* method's loss_samples)
add_optimization_trace(fig, bias_samples, slope_samples, sse_samples) ==
    LET st == Stride(Len(bias_samples))
    IN fig \o << Trace("Optimization Path", Slice(bias_samples, st),
                       Slice(slope_samples, st), Slice(sse_samples, st)),
                 Trace("Start Point", <<bias_samples[1]>>, <<slope_samples[1]>>,
                       <<sse_samples[1]>>),
                 Trace("End Point", <<LastEntry(bias_samples)>>,
                       <<LastEntry(slope_samples)>>, <<LastEntry(sse_samples)>>) >>

\* lines 351-412
add_minima_markers(fig, tb, ts, tsse, smb, sms, smsse) ==
    fig \o (IF tb # None /\ ts # None /\ tsse # None
            THEN << Trace("True Minimum", <<F(Val(tb))>>, <<F(Val(ts))>>, <<Val(tsse)>>) >>
            ELSE << >>)
        \o << Trace("Surface Minimum", <<Val(smb)>>, <<Val(sms)>>, <<Val(smsse)>>) >>

\* np.argmin(sse_mesh, axis=None), unravelled: the first NaN cell if there is one,
\* else the first cell, row by row, of least loss
argmin(sse_mesh) ==
    LET n == Len(sse_mesh)
        row(f) == ((f - 1) \div n) + 1
        col(f) == ((f - 1) % n) + 1
        at(f) == sse_mesh[row(f)][col(f)]
        nans == {f \in 1..(n * n) : at(f).k = "nan"}
        first == IF nans # {}
                 THEN CHOOSE f \in nans : \A g \in nans : f <= g
                 ELSE CHOOSE f \in 1..(n * n) :
                        /\ \A g \in 1..(n * n) : ~FLt(at(g), at(f))
                        /\ \A g \in 1..(f - 1) : FLt(at(f), at(g))
    IN <<row(first), col(first)>>

\* np.min(sse_mesh): NaN as soon as one cell is NaN
mesh_min(sse_mesh) == sse_mesh[argmin(sse_mesh)[1]][argmin(sse_mesh)[2]]

\* SetField with a fault: a minimum already stored is kept
SetFieldOnce(old, new) == IF old = None THEN Some(new) ELSE old

\* lines 200-202: self.surface_min_... = ...
SetField(old, new) == Some(new)

\* the bias_samples, slope_samples, loss_samples arguments
SampleArgs == {<<None, None, None>>,
               <<Some(<<1, 2, 2>>), Some(<<3, 2, 2>>), Some(<<9, 4, 4>>)>>,
               <<Some(<<1>>), None, Some(<<9>>)>>}

\* lines 190-261
Create3dSurfacePlot ==
    /\ vpc = "ready"
    /\ \E bias_range \in BiasRanges, slope_range \in SlopeRanges,
          resolution \in Resolutions, scale_factor \in ScaleFactors,
          samples \in SampleArgs :
       \E out \in calculate_sse_surface(bias_range, slope_range, resolution, scale_factor,
                                        true_bias, true_slope, x_data, y_data) :
          /\ vcall' = [name |-> "create_3d_surface_plot",
                       bias_range |-> bias_range, slope_range |-> slope_range,
                       resolution |-> resolution, scale_factor |-> scale_factor,
                       samples |-> samples]
          /\ IF out.status = "raised"
             THEN /\ vout' = out
                  /\ UNCHANGED <<surface_min_bias, surface_min_slope, surface_min_sse>>
             ELSE LET c == argmin(out.sse_mesh)
                      smb == SetField(surface_min_bias, out.bias_mesh[c[1]][c[2]])
                      sms == SetField(surface_min_slope, out.slope_mesh[c[1]][c[2]])
                      smsse == SetField(surface_min_sse, mesh_min(out.sse_mesh))
                      surface == <<Trace("SSE Surface", out.bias_mesh, out.slope_mesh,
                                         out.sse_mesh)>>
                      traced == IF samples[1] # None /\ samples[2] # None /\ samples[3] # None
                                THEN add_optimization_trace(surface, Val(samples[1]),
                                                            Val(samples[2]), Val(samples[3]))
                                ELSE surface
                  IN /\ surface_min_bias' = smb
                     /\ surface_min_slope' = sms
                     /\ surface_min_sse' = smsse
                     /\ vout' = [status |-> "returned",
                                 fig |-> add_minima_markers(traced, true_bias, true_slope,
                                                            true_sse, smb, sms, smsse)]
    /\ UNCHANGED <<vpc, x_data, y_data, true_bias, true_slope, true_sse>>
    /\ UNCHANGED simVars

(***************************************************************************)
(* _add_optimization_trace on long trajectories: a visualizer that is      *)
(* already constructed adds the trace of a trajectory to an empty figure.  *)
(***************************************************************************)
MaxTraceLen == 2050     \* trajectory lengths range over 1..MaxTraceLen, and 5000

TraceLens == (1..MaxTraceLen) \cup {5000}
Shapes == {"descent", "plateaus"}

\* a trajectory of length n: "descent" has pairwise different entries, "plateaus"
\* repeats each entry as a run of rejected proposals does
Trajectory(n, shape) ==
    LET e(i) == IF shape = "descent" THEN i ELSE i \div 3
    IN [bias_samples |-> [i \in 1..n |-> e(i)],
        slope_samples |-> [i \in 1..n |-> 2 * e(i) + 1],
        loss_samples |-> [i \in 1..n |-> 3 * (n - e(i))]]

TraceInit ==
    /\ SimInit
    /\ vpc = "ready"
    /\ x_data = <<1, 3>>
    /\ y_data = <<2, 6>>
    /\ true_bias = None
    /\ true_slope = None
    /\ true_sse = None
    /\ surface_min_bias = None
    /\ surface_min_slope = None
    /\ surface_min_sse = None
    /\ vcall = [name |-> "none"]
    /\ vout = [status |-> "none"]

AddOptimizationTrace ==
    /\ vpc = "ready"
    /\ vcall.name = "none"
    /\ \E n \in TraceLens, shape \in Shapes :
          LET t == Trajectory(n, shape)
          IN /\ vcall' = [name |-> "_add_optimization_trace", samples |-> t]
             /\ vout' = [status |-> "returned",
                         fig |-> add_optimization_trace(<< >>, t.bias_samples,
                                                        t.slope_samples, t.loss_samples)]
    /\ UNCHANGED <<vpc, x_data, y_data, true_bias, true_slope, true_sse,
                   surface_min_bias, surface_min_slope, surface_min_sse>>
    /\ UNCHANGED simVars

SpecTrace == TraceInit /\ [][AddOptimizationTrace]_vars

VizIdle ==
    /\ vpc = "new"
    /\ x_data = <<>>
    /\ y_data = <<>>
    /\ true_bias = None
    /\ true_slope = None
    /\ true_sse = None
    /\ surface_min_bias = None
    /\ surface_min_slope = None
    /\ surface_min_sse = None
    /\ vcall = [name |-> "none"]
    /\ vout = [status |-> "none"]

Init == SimInit /\ VizIdle

Next ==
    \/ Construct
    \/ RunSimulationEnter
    \/ RunSimulationStep
    \/ RunSimulationReturn
    \/ Release

Spec == Init /\ [][Next]_vars

VizNext ==
    \/ VizConstruct
    \/ CalculateSseSurface
    \/ Create3dSurfacePlot

SpecViz == Init /\ [][VizNext]_vars

(***************************************************************************)
(* Claims about run_simulation, checked under Spec.                        *)
(***************************************************************************)
NonIncreasing(s) == \A i \in 1..(Len(s) - 1) : s[i + 1] <= s[i]

\* C1: run_simulation returns after exactly n_samples iterations, and b1_samples,
\* b2_samples and loss_samples each have length n_samples + 1: the initial state
\* and one entry per iteration, accepted or rejected.
C1_TrajectoryLength ==
    /\ pc = "loop" =>
          /\ step <= args.n_samples
          /\ Len(b1_samples) = step + 1
          /\ Len(b2_samples) = step + 1
          /\ Len(loss_samples) = step + 1
    /\ pc = "returned" =>
          /\ step = args.n_samples
          /\ Len(result.b1_samples) = args.n_samples + 1
          /\ Len(result.b2_samples) = args.n_samples + 1
          /\ Len(result.loss_samples) = args.n_samples + 1
          /\ result.b1_samples[1] = b1_samples[1]
          /\ result.loss_samples[1] = calculate_loss(b1_samples[1], b2_samples[1], args.x, args.y)

\* a run of MaxSamples iterations returned with some accepted and some rejected
C1_Witness ==
    /\ pc = "returned"
    /\ args.n_samples = MaxSamples
    /\ n_accepted > 0
    /\ n_accepted < args.n_samples

\* C2: the loss of the returned trajectory never increases from one entry to the
\* next.
C2_LossNonIncreasing ==
    /\ pc = "loop" => NonIncreasing(loss_samples)
    /\ pc = "returned" => NonIncreasing(result.loss_samples)

\* a returned trajectory with a strict decrease followed by a repeated value
C2_Witness ==
    /\ pc = "returned"
    /\ Len(result.loss_samples) >= 3
    /\ result.loss_samples[2] < result.loss_samples[1]
    /\ result.loss_samples[3] = result.loss_samples[2]

\* C3: an iteration accepts its proposal iff the proposal's loss is strictly less
\* than the current loss; on accept (b1, b2, current_loss) become the proposal's
\* and n_accepted grows by 1; on reject, ties included, all four are unchanged.
C3_AcceptIffStrictlyLess ==
    [][(pc = "loop" /\ step' = step + 1) =>
          IF last'.new_loss < current_loss
          THEN /\ b1' = last'.b1_new
               /\ b2' = last'.b2_new
               /\ current_loss' = last'.new_loss
               /\ n_accepted' = n_accepted + 1
          ELSE UNCHANGED <<b1, b2, current_loss, n_accepted>>]_vars

\* after an accepted iteration, an iteration whose proposal tied with the current
\* loss left the state alone
C3_Witness ==
    /\ pc = "loop"
    /\ step = 2
    /\ n_accepted = 1
    /\ last.new_loss = current_loss
    /\ b1_samples[3] = b1_samples[2]
    /\ b1_samples[2] # b1_samples[1]

\* C4: a call with n_samples = 0 is either rejected by an explicit check or
\* returns the one-entry trajectory with acceptance rate 0; the rate is never
\* computed as the unguarded division 0 / 0 (which is what raises
\* ZeroDivisionError at line 185).
C4_ZeroSamplesDefined ==
    (pc \in {"returned", "raised"} /\ args.n_samples = 0) =>
        \/ pc = "raised" /\ error # "ZeroDivisionError"
        \/ /\ pc = "returned"
           /\ Len(result.loss_samples) = 1
           /\ result.acceptance_rate.num = 0

\* the deviates the call in progress has drawn: one per defaulted initial
\* parameter (lines 147, 149) and two per iteration (lines 167, 168)
SearchDraws ==
    (IF args.b1_init = None THEN 1 ELSE 0) + (IF args.b2_init = None THEN 1 ELSE 0)
    + 2 * step

\* C11: the search reads a stream of its own: the position of the generator that
\* run_simulation draws from is the number of deviates that call has drawn, and
\* so does not depend on how many deviates generate_data or an earlier
\* run_simulation call consumed.
C11_SearchStreamOwn ==
    pc = "loop" => rng = SearchDraws

InBounds(v, bounds) == bounds[1] <= v /\ v <= bounds[2]

\* the iterations recorded in a trajectory that accepted their proposal: the
\* loss of the entry they appended is below the loss of the entry before
AcceptedSteps(losses) == {k \in 1..(Len(losses) - 1) : losses[k + 1] < losses[k]}

\* C12: every proposal is clipped into b1_bounds and b2_bounds before its loss is
\* evaluated; so every trajectory entry recorded at or after the first accepted
\* iteration lies within the bounds, and every entry before it equals the initial
\* parameters, which are taken as given, unclipped.
C12_ClippedAfterFirstAccept ==
    pc \in {"loop", "returned"} =>
        /\ (step >= 1 =>
               /\ InBounds(last.b1_new, args.b1_bounds)
               /\ InBounds(last.b2_new, args.b2_bounds)
               /\ last.new_loss = calculate_loss(last.b1_new, last.b2_new, args.x, args.y))
        /\ (args.b1_init # None => b1_samples[1] = Val(args.b1_init))
        /\ (args.b2_init # None => b2_samples[1] = Val(args.b2_init))
        /\ \A i \in 1..Len(b1_samples) :
              IF \E k \in AcceptedSteps(loss_samples) : k < i
              THEN /\ InBounds(b1_samples[i], args.b1_bounds)
                   /\ InBounds(b2_samples[i], args.b2_bounds)
              ELSE /\ b1_samples[i] = b1_samples[1]
                   /\ b2_samples[i] = b2_samples[1]
        /\ (pc = "returned" =>
               /\ result.b1_samples = b1_samples
               /\ result.b2_samples = b2_samples
               /\ result.loss_samples = loss_samples)

\* a returned run that started with b1 outside b1_bounds, kept it through a
\* rejected iteration and then accepted a clipped proposal
C12_Witness ==
    /\ pc = "returned"
    /\ Len(b1_samples) >= 3
    /\ ~InBounds(b1_samples[1], args.b1_bounds)
    /\ b1_samples[2] = b1_samples[1]
    /\ loss_samples[3] < loss_samples[2]
    /\ InBounds(b1_samples[3], args.b1_bounds)

(***************************************************************************)
(* Claims about _add_optimization_trace, checked under SpecTrace.          *)
(***************************************************************************)
CeilDiv(a, b) == (a + b - 1) \div b
Abs(n) == IF n < 0 THEN 0 - n ELSE n

Named(fig, name) == {k \in 1..Len(fig) : fig[k].name = name}
TheTrace(fig, name) == fig[CHOOSE k \in Named(fig, name) : TRUE]

TraceCalled == vcall.name = "_add_optimization_trace" /\ vout.status = "returned"

SurfaceCalled == vcall.name = "calculate_sse_surface"
FeatureRange == SeqMax(x_data) - SeqMin(x_data)

\* the centers of lines 120 and 124-130 as integers, where they are numbers
IntBiasCenter ==
    IF true_bias # None THEN Val(true_bias) ELSE SumSeq(y_data) \div Len(y_data)
IntSlopeCenter ==
    IF true_slope # None THEN Val(true_slope)
    ELSE (SeqMax(y_data) - SeqMin(y_data)) \div FeatureRange
CentersDefined == true_slope # None \/ FeatureRange # 0

\* C6: whichever of bias_range and slope_range is None, calculate_sse_surface
\* completes and returns three resolution x resolution arrays, a given range
\* used as given and a None range replaced by the auto-detected one.
C6_AutoDetectCompletes ==
    SurfaceCalled =>
        /\ vout.status = "returned"
        /\ Len(vout.bias_mesh) = vcall.resolution
        /\ Len(vout.slope_mesh) = vcall.resolution
        /\ Len(vout.sse_mesh) = vcall.resolution
        /\ (vcall.bias_range # None =>
               vout.bias_range = <<F(Val(vcall.bias_range)[1]), F(Val(vcall.bias_range)[2])>>)
        /\ (vcall.slope_range # None =>
               vout.slope_range = <<F(Val(vcall.slope_range)[1]), F(Val(vcall.slope_range)[2])>>)

\* C7: a degenerate auto-detected configuration (both centers 0, or features of
\* zero range with the slope center taken from the data) is surfaced as a failure:
\* an exception, or a grid that is visibly not a number.
C7_DegenerateSurfaced ==
    (/\ SurfaceCalled
     /\ vcall.bias_range = None
     /\ vcall.slope_range = None
     /\ \/ (true_slope = None /\ FeatureRange = 0)
        \/ (IntBiasCenter = 0 /\ IntSlopeCenter = 0))
    => \/ vout.status = "raised"
       \/ /\ vout.status = "returned"
          /\ \E i, j \in 1..vcall.resolution : ~IsFinite(vout.sse_mesh[i][j])

\* C8: with neither range given, both ranges are center - h .. center + h for the
\* one half-width h = max(|bias_center|, |slope_center|) * scale_factor, the
\* centers being the true parameters where known, else the mean of the targets
\* and (max target - min target) / (max feature - min feature).  (The slope
\* center has to be a number: the features have a range, or true_slope is known.)
C8_CommonHalfWidth ==
    (/\ SurfaceCalled
     /\ vcall.bias_range = None
     /\ vcall.slope_range = None
     /\ CentersDefined)
    => LET h == Max(Abs(IntBiasCenter), Abs(IntSlopeCenter)) * vcall.scale_factor
       IN /\ vout.status = "returned"
          /\ vout.bias_range = <<F(IntBiasCenter - h), F(IntBiasCenter + h)>>
          /\ vout.slope_range = <<F(IntSlopeCenter - h), F(IntSlopeCenter + h)>>

\* the slope center is the larger one, and the bias range is as wide as the
\* slope range
C8_Witness ==
    /\ SurfaceCalled
    /\ vcall.bias_range = None
    /\ vcall.slope_range = None
    /\ CentersDefined
    /\ Abs(IntSlopeCenter) > Abs(IntBiasCenter)
    /\ vout.status = "returned"
    /\ vout.bias_range[2].v - vout.bias_range[1].v
          = 2 * Abs(IntSlopeCenter) * vcall.scale_factor

PlotReturned == vcall.name = "create_3d_surface_plot" /\ vout.status = "returned"

\* C9: every scene create_3d_surface_plot returns has exactly one surface-minimum
\* marker, at a cell of least loss of the surface of that same scene (the grid of
\* that call), and has a true-minimum marker iff both true parameters were given
\* at construction.
C9_MinimaMarkers ==
    PlotReturned =>
        LET fig == vout.fig
            n == vcall.resolution
            surf == fig[1]
            m == TheTrace(fig, "Surface Minimum")
        IN /\ surf.name = "SSE Surface"
           /\ Len(surf.z) = n
           /\ (vcall.bias_range # None =>
                  /\ surf.x[1][1] = F(Val(vcall.bias_range)[1])
                  /\ surf.x[1][n] = F(Val(vcall.bias_range)[2]))
           /\ Cardinality(Named(fig, "Surface Minimum")) = 1
           /\ \E i, j \in 1..n :
                 /\ m.x = <<surf.x[i][j]>>
                 /\ m.y = <<surf.y[i][j]>>
                 /\ m.z = <<surf.z[i][j]>>
                 /\ \A i2, j2 \in 1..n : ~FLt(surf.z[i2][j2], surf.z[i][j])
           /\ surface_min_bias = Some(m.x[1])
           /\ surface_min_slope = Some(m.y[1])
           /\ surface_min_sse = Some(m.z[1])
           /\ Cardinality(Named(fig, "True Minimum"))
                 = (IF true_bias # None /\ true_slope # None THEN 1 ELSE 0)

\* a scene with a path, a true-minimum marker and a surface minimum that lies
\* elsewhere
C9_Witness ==
    /\ PlotReturned
    /\ Named(vout.fig, "Optimization Path") # {}
    /\ Named(vout.fig, "True Minimum") # {}
    /\ IsFinite(TheTrace(vout.fig, "Surface Minimum").z[1])
    /\ TheTrace(vout.fig, "Surface Minimum").x # TheTrace(vout.fig, "True Minimum").x

====
